---------------------------- MODULE Spec2Model ----------------------------
(***************************************************************************)
(* A model of the pieces of nba_data that carry logic:                     *)
(*                                                                         *)
(*   - retry (src/src/stats.py), the backoff-retry invoker, driven by its  *)
(*     caller get_box_score, which makes two retry calls in a row:         *)
(*     Spec and FairSpec;                                                  *)
(*   - the opponent-pairing pass of dump_team_eff_json (src/src/dl.py):    *)
(*     JoinSpec, and RejoinSpec for a second pass over its own output;     *)
(*   - download_player_stats (src/src/dl.py): PlayerSpec;                  *)
(*   - download_gamelogs (src/src/dl.py): GamelogSpec;                     *)
(*   - main and fetch_espn_data (src/src/espn.py): EspnSpec;               *)
(*   - backfill_player_details (src/src/backfill_player_details.py):       *)
(*     BackfillSpec;                                                       *)
(*   - the earlier retry (src/dl.py), run beside the retry of stats.py on  *)
(*     the same callable: BothSpec.                                        *)
(*                                                                         *)
(* Each specification leaves the variables of the other components         *)
(* untouched.                                                              *)
(***************************************************************************)
EXTENDS Integers, Sequences, FiniteSets, TLC

VARIABLES
    \* ---- retry / get_box_score ----
    pc,         \* position in get_box_score / retry
    f,          \* name of the callable handed to retry
    kwargs,     \* keyword arguments handed to retry
    i,          \* retry's attempt counter
    timeout,    \* retry's local "timeout": the delay chosen for this attempt
    exc,        \* the exception bound by "except Exception as exc"
    result,     \* value returned by the retry call
    err,        \* exception propagating out of the retry call
    calls,      \* number of invocations of f made by the current retry call
    log,        \* observable events of the current retry call, in order
    \* ---- dump_team_eff_json ----
    jpc,            \* position in dump_team_eff_json
    games,          \* data["games"]: the list of row dicts
    game_id_index,  \* game_id -> list of references (positions) into games
    cursor,         \* position of g1 in the second loop
    warnings,       \* lines printed by the except ValueError branch
    year,           \* the year argument
    input,          \* the rows as they came out of eff.to_dict
    pass,           \* 1 in the pairing pass, 2 when it is run over its own output
    first,          \* the rows as the first pass left them
    \* ---- download_player_stats ----
    ppc,            \* position in download_player_stats
    pyear,          \* the loop variable year
    cur,            \* what the run did for the season it handled last
    ptotal,         \* what the run did so far, over all seasons
    pevents,        \* the file operations after the season loop, in order
    \* ---- download_gamelogs ----
    gpc,            \* position in download_gamelogs
    gyear,          \* the loop variable year
    game_seasons,   \* the list game_seasons, by its length
    player_seasons, \* the list player_seasons, by its length
    old_games,      \* the season's gamelog file as read, or None
    old_playerlogs, \* the season's playerlog file as read, or None
    logs,           \* the frames get_team_gamelogs returned, one per measure
    rcur,           \* position of the inner loop in the current frame's rows
    playerlogs,     \* the box scores collected for the season
    season_games,   \* the local "games" of the loop body
    gwritten,       \* the two files the loop body wrote last
    gevents,        \* the file operations after the season loop, in order
    gerr,           \* the exception that left download_gamelogs
    \* ---- espn.main ----
    epc,            \* position in espn.main / fetch_espn_data
    every_season,   \* opts.every_season
    now,            \* the day on which the script runs
    season,         \* the loop variable season
    dates,          \* the list daterange returned for the season
    dcur,           \* position of the inner loop in dates
    today,          \* the string today
    yesterday,      \* the string yesterday
    ecur,           \* what main did for the date it handled last
    data,           \* what fetch_espn_data returned
    \* ---- backfill_player_details ----
    bpc,            \* position in backfill_player_details
    scur,           \* position of the outer loop in seasons
    json_files,     \* the list json_files, by its length
    fcur,           \* position of the inner loop in json_files
    counts,         \* the counters updated, skipped and errors
    bcur,           \* what the loop did for the file it handled last
    summary,        \* the season summary printed last
    \* ---- retry of src/dl.py ----
    old_pc,         \* position in that retry
    old_i,          \* its attempt counter
    old_timeout,    \* its local "timeout"
    old_exc,        \* the exception bound by its "except Exception as exc"
    old_result,     \* the value it returned
    old_err,        \* the exception that left it
    old_calls,      \* the invocations of f it made
    old_log         \* its observable events, in order

retryVars == <<pc, f, kwargs, i, timeout, exc, result, err, calls, log>>
rerunVars == <<pass, first>>
joinVars  == <<jpc, games, game_id_index, cursor, warnings, year, input, rerunVars>>
playerVars == <<ppc, pyear, cur, ptotal, pevents>>
gamelogVars == <<gpc, gyear, game_seasons, player_seasons, old_games,
                 old_playerlogs, logs, rcur, playerlogs, season_games,
                 gwritten, gevents, gerr>>
espnVars == <<epc, every_season, now, season, dates, dcur, today, yesterday,
              ecur, data>>
backfillVars == <<bpc, scur, json_files, fcur, counts, bcur, summary>>
oldVars == <<old_pc, old_i, old_timeout, old_exc, old_result, old_err,
             old_calls, old_log>>
scriptVars == <<gamelogVars, espnVars, backfillVars, oldVars>>
vars      == <<retryVars, joinVars, playerVars, scriptVars>>

-----------------------------------------------------------------------------
(* Bounds of the model *)

MaxGameIds == 1     \* distinct game identifiers
MaxValues  == 2     \* distinct responses the stats API can return

MaxRows    == 3     \* rows handed to dump_team_eff_json
MaxGroups  == 2     \* distinct game identifiers among those rows
MaxTeams   == 2     \* distinct team identifiers among those rows

GameIds == 1..MaxGameIds
Values  == 1..MaxValues

-----------------------------------------------------------------------------
(* retry: src/src/stats.py *)

TIMEOUT == 30

\* the literal list indexed at stats.py:65 (Python index i is TLA+ index i+1)
schedule == <<1, 2, 5, 10, 15, 20, 25, 25, 25, 50, 50, 100>>

\* the literal 11 in "if i > 11"
RetryCap == 11

\* exception classes the wrapped callable raises; every one derives from
\* Exception (requests.ReadTimeout, urllib3 ReadTimeoutError, the builtin
\* TimeoutError, and ValueError standing for any other error)
ReadTimeoutClasses == {"ReadTimeout", "ReadTimeoutError", "TimeoutError"}
ErrorClasses == ReadTimeoutClasses \cup {"ValueError"}

None == [type |-> "None", seq |-> 0]

\* "except Exception": every class of ErrorClasses is caught
CaughtOnlyTimeouts(e) == e.type \in ReadTimeoutClasses
Caught(e) == e.type \in ErrorClasses

\* "if i > 11"
LimitReachedLate(n) == n > RetryCap + 1
LimitReached(n) == n > RetryCap

\* "while 1"
LoopWhileBudget(n) == n <= RetryCap
LoopCond(n) == TRUE

\* "[...][i]"
DelayFromEnd(n) == schedule[Len(schedule) - n]
DelayAfterIncrement(n) == schedule[n + 2]
Delay(n) == schedule[n + 1]

\* "isinstance(exc, (ReadTimeout, ReadTimeoutError, TimeoutError))"
IsReadTimeoutRequestsOnly(e) == e.type = "ReadTimeout"
IsReadTimeout(e) == e.type \in ReadTimeoutClasses

\* RetryLimitExceeded.__init__
RetryLimitExceededNoCause(func_name, attempts, kw, exception) ==
    [type |-> "RetryLimitExceeded", func_name |-> func_name,
     attempts |-> attempts, kwargs |-> kw, last_exception |-> None]
RetryLimitExceeded(func_name, attempts, kw, exception) ==
    [type |-> "RetryLimitExceeded", func_name |-> func_name,
     attempts |-> attempts, kwargs |-> kw, last_exception |-> exception]

\* "return f(**kwargs)"
ReturnValue(v) == v

\* the argument of "sleep(timeout)"
SleptSixty(t) == 60
SleptDelay(t) == t

Event(e, a) == [ev |-> e, arg |-> a]

\* "i = 0": entry of a retry call
RetryEnterSharingCounter(func, kw) ==
    /\ f' = func
    /\ kwargs' = kw
    /\ i' = i
    /\ timeout' = timeout
    /\ exc' = None
    /\ result' = 0
    /\ err' = None
    /\ calls' = 0
    /\ log' = <<>>
    /\ pc' = "loop"
RetryEnter(func, kw) ==
    /\ f' = func
    /\ kwargs' = kw
    /\ i' = 0
    /\ timeout' = 0
    /\ exc' = None
    /\ result' = 0
    /\ err' = None
    /\ calls' = 0
    /\ log' = <<>>
    /\ pc' = "loop"

\* get_box_score: bs = retry(BoxScoreTraditionalV3, game_id=game_id, timeout=TIMEOUT)
GetBoxScore(game_id) ==
    /\ pc = "start"
    /\ RetryEnter("BoxScoreTraditionalV3", [game_id |-> game_id, timeout |-> TIMEOUT])
    /\ UNCHANGED <<joinVars, playerVars, scriptVars>>

\* "while 1:" and the statement after the loop
LoopTest ==
    /\ pc = "loop"
    /\ IF LoopCond(i)
         THEN pc' = "call" /\ err' = err
         ELSE pc' = "raised" /\ err' = [type |-> "Exception", seq |-> 0]
    /\ UNCHANGED <<f, kwargs, i, timeout, exc, result, calls, log>>
    /\ UNCHANGED <<joinVars, playerVars, scriptVars>>

\* "return f(**kwargs)" when f returns v
InvokeReturns(v) ==
    /\ pc = "call"
    /\ calls' = calls + 1
    /\ log' = log \o <<Event("call", 0), Event("return", v)>>
    /\ result' = ReturnValue(v)
    /\ pc' = "returned"
    /\ UNCHANGED <<f, kwargs, i, timeout, exc, err>>
    /\ UNCHANGED <<joinVars, playerVars, scriptVars>>

\* "return f(**kwargs)" when f raises an exception of class t
InvokeRaises(t) ==
    /\ pc = "call"
    /\ calls' = calls + 1
    /\ log' = Append(log, Event("call", 0))
    /\ LET e == [type |-> t, seq |-> calls + 1]
       IN  IF Caught(e)
             THEN exc' = e /\ err' = err /\ pc' = "except"
             ELSE exc' = exc /\ err' = e /\ pc' = "raised"
    /\ UNCHANGED <<f, kwargs, i, timeout, result>>
    /\ UNCHANGED <<joinVars, playerVars, scriptVars>>

\* "if i > 11: raise RetryLimitExceeded(f.__name__, i, kwargs, exc)"
RaiseLimit ==
    /\ pc = "except"
    /\ LimitReached(i)
    /\ err' = RetryLimitExceeded(f, i, kwargs, exc)
    /\ pc' = "raised"
    /\ UNCHANGED <<f, kwargs, i, timeout, exc, result, calls, log>>
    /\ UNCHANGED <<joinVars, playerVars, scriptVars>>

\* "timeout = [...][i]; i += 1; print(f"failed ...")"
Backoff ==
    /\ pc = "except"
    /\ ~LimitReached(i)
    /\ IF i + 1 \in DOMAIN schedule
         THEN /\ timeout' = Delay(i)
              /\ i' = i + 1
              /\ log' = Append(log, Event("print", timeout'))
              /\ pc' = IF IsReadTimeout(exc) THEN "sleep" ELSE "traceback"
              /\ err' = err
         ELSE /\ err' = [type |-> "IndexError", seq |-> 0]
              /\ pc' = "raised"
              /\ UNCHANGED <<timeout, i, log>>
    /\ UNCHANGED <<f, kwargs, exc, result, calls>>
    /\ UNCHANGED <<joinVars, playerVars, scriptVars>>

\* "print(traceback.format_exc())"
PrintTraceback ==
    /\ pc = "traceback"
    /\ log' = Append(log, Event("traceback", 0))
    /\ pc' = "sleep"
    /\ UNCHANGED <<f, kwargs, i, timeout, exc, result, err, calls>>
    /\ UNCHANGED <<joinVars, playerVars, scriptVars>>

\* "sleep(timeout)"; leaving the except clause unbinds exc
SleepOnlyAfterTraceback ==
    /\ pc = "sleep"
    /\ log' = IF log[Len(log)].ev = "traceback"
                THEN Append(log, Event("sleep", SleptDelay(timeout)))
                ELSE log
    /\ exc' = None
    /\ pc' = "loop"
    /\ UNCHANGED <<f, kwargs, i, timeout, result, err, calls>>
    /\ UNCHANGED <<joinVars, playerVars, scriptVars>>
Sleep ==
    /\ pc = "sleep"
    /\ log' = Append(log, Event("sleep", SleptDelay(timeout)))
    /\ exc' = None
    /\ pc' = "loop"
    /\ UNCHANGED <<f, kwargs, i, timeout, result, err, calls>>
    /\ UNCHANGED <<joinVars, playerVars, scriptVars>>

\* get_box_score: bsa = retry(BoxScoreAdvancedV3, game_id=game_id, timeout=TIMEOUT)
CallAdvanced ==
    /\ pc = "returned"
    /\ f = "BoxScoreTraditionalV3"
    /\ RetryEnter("BoxScoreAdvancedV3", kwargs)
    /\ UNCHANGED <<joinVars, playerVars, scriptVars>>

\* get_box_score: return join([bs, bsa], on=["gameId", "personId"])
JoinBoxScores ==
    /\ pc = "returned"
    /\ f = "BoxScoreAdvancedV3"
    /\ pc' = "done"
    /\ UNCHANGED <<f, kwargs, i, timeout, exc, result, err, calls, log>>
    /\ UNCHANGED <<joinVars, playerVars, scriptVars>>

JoinIdle ==
    /\ jpc = "start"
    /\ games = <<>>
    /\ game_id_index = <<>>
    /\ cursor = 0
    /\ warnings = <<>>
    /\ year = 0
    /\ input = <<>>
    /\ pass = 1
    /\ first = <<>>

RetryIdle ==
    /\ pc = "start"
    /\ f = "None"
    /\ kwargs = None
    /\ i = 0
    /\ timeout = 0
    /\ exc = None
    /\ result = 0
    /\ err = None
    /\ calls = 0
    /\ log = <<>>

NoSeason ==
    [year |-> 0, is_file |-> FALSE, age |-> 0, fresh_called |-> FALSE,
     fresh |-> FALSE, decision |-> "none", reads |-> 0, dash |-> <<>>,
     twopt |-> 0, bio |-> 0, join |-> 0, convert |-> 0, written |-> <<>>]

PlayerIdle ==
    /\ ppc = "start"
    /\ pyear = 0
    /\ cur = NoSeason
    /\ ptotal = [cached |-> 0, downloaded |-> 0, reads |-> 0, api |-> 0,
                 writes |-> 0, tryrm |-> 0, metadata |-> 0]
    /\ pevents = <<>>

NoFrame == [none |-> TRUE, rows |-> <<>>]
Frame(rows) == [none |-> FALSE, rows |-> rows]

GamelogIdle ==
    /\ gpc = "start"
    /\ gyear = 0
    /\ game_seasons = 0
    /\ player_seasons = 0
    /\ old_games = NoFrame
    /\ old_playerlogs = NoFrame
    /\ logs = <<>>
    /\ rcur = 0
    /\ playerlogs = <<>>
    /\ season_games = <<>>
    /\ gwritten = [year |-> 0, wrote |-> FALSE, gamelog |-> <<>>, playerlog |-> <<>>]
    /\ gevents = <<>>
    /\ gerr = "None"

NoDate ==
    [idx |-> 0, date |-> <<"%Y-%m-%d", 0>>, is_file |-> FALSE, fetched |-> FALSE,
     error |-> "None", wrote |-> FALSE, before |-> "absent", after |-> "absent"]

EspnIdle ==
    /\ epc = "start"
    /\ every_season = FALSE
    /\ now = 0
    /\ season = 0
    /\ dates = <<>>
    /\ dcur = 0
    /\ today = <<"%Y-%m-%d", 0>>
    /\ yesterday = <<"%Y-%m-%d", 0>>
    /\ ecur = NoDate
    /\ data = "None"

BackfillIdle ==
    /\ bpc = "start"
    /\ scur = 0
    /\ json_files = 0
    /\ fcur = 0
    /\ counts = [updated |-> 0, skipped |-> 0, errors |-> 0]
    /\ bcur = [idx |-> 0, details |-> "absent", four_factors |-> "absent",
               was |-> [updated |-> 0, skipped |-> 0, errors |-> 0],
               requests |-> 0, writes |-> 0,
               error |-> [class |-> "None", code |-> "None"], on_disk |-> "absent"]
    /\ summary = [season |-> 0, files |-> 0, updated |-> 0, skipped |-> 0,
                  errors |-> 0]

OldRetryIdle ==
    /\ old_pc = "start"
    /\ old_i = 0
    /\ old_timeout = 0
    /\ old_exc = None
    /\ old_result = 0
    /\ old_err = None
    /\ old_calls = 0
    /\ old_log = <<>>

Init ==
    /\ RetryIdle /\ JoinIdle /\ PlayerIdle
    /\ GamelogIdle /\ EspnIdle /\ BackfillIdle /\ OldRetryIdle

Next ==
    \/ \E g \in GameIds : GetBoxScore(g)
    \/ LoopTest
    \/ \E v \in Values : InvokeReturns(v)
    \/ \E t \in ErrorClasses : InvokeRaises(t)
    \/ RaiseLimit
    \/ Backoff
    \/ PrintTraceback
    \/ Sleep
    \/ CallAdvanced
    \/ JoinBoxScores

Spec == Init /\ [][Next]_vars

\* The program is sequential: whenever a step is possible it is taken, and
\* every invocation of f and every sleep returns.
FairSpec == Spec /\ WF_vars(Next)

-----------------------------------------------------------------------------
(* dump_team_eff_json: src/src/dl.py *)

FIRST_SEASON == 2010
CURRENT_SEASON == 2025

\* the (pts, poss) a row can carry
StatLines == {<<100, 90>>, <<95, 88>>}

\* the records eff.to_dict(orient="records") can produce
Rows ==
    {[game_id |-> g, team_id |-> t, pts |-> st[1], poss |-> st[2]] :
        g \in 1..MaxGroups, t \in 1..MaxTeams, st \in StatLines}

RowLists == UNION {[1..n -> Rows] : n \in 0..MaxRows}

Years == {FIRST_SEASON, CURRENT_SEASON}

\* the list game_id_index[g] after the first loop: references to the rows
\* of game g, in the order of data["games"]
Positions(rows, g) ==
    LET all == [k \in 1..Len(rows) |-> k]
        Mine(k) == rows[k].game_id = g
    IN  SelectSeq(all, Mine)

\* "a, b = game_id_index[g1["game_id"]]" raises ValueError unless the list
\* has exactly two members
UnpacksTwoOrMore(group) == Len(group) >= 2
Unpacks(group) == Len(group) = 2

\* "except ValueError"
Handles(e) == e = "ValueError"

\* "g2 = a if a["team_id"] != g1["team_id"] else b"
OpponentFirst(a, b, g1) == a
Opponent(a, b, g1) == IF a.team_id # g1.team_id THEN a ELSE b

\* "g1["opp_pts"] = g2["pts"]; g1["opp_poss"] = g2["poss"]"
AttachAccumulating(g1, g2) ==
    [x \in DOMAIN g1 \cup {"opp_pts", "opp_poss"} |->
        IF x = "opp_pts"
          THEN (IF "opp_pts" \in DOMAIN g1 THEN g1.opp_pts ELSE 0) + g2.pts
        ELSE IF x = "opp_poss" THEN g2.poss
        ELSE g1[x]]
AttachOverwritingPts(g1, g2) ==
    [x \in DOMAIN g1 \cup {"opp_pts", "opp_poss"} |->
        IF x \in {"opp_pts", "pts"} THEN g2.pts
        ELSE IF x = "opp_poss" THEN g2.poss
        ELSE g1[x]]
Attach(g1, g2) ==
    [x \in DOMAIN g1 \cup {"opp_pts", "opp_poss"} |->
        IF x = "opp_pts" THEN g2.pts
        ELSE IF x = "opp_poss" THEN g2.poss
        ELSE g1[x]]

\* the line printed by the except branch: it interpolates g1['game_id'] and year
Warning(g1, y) == [game_id |-> g1.game_id, year |-> y]

\* data = {..., "games": eff.to_dict(orient="records")}
DumpTeamEffJson ==
    /\ jpc = "start"
    /\ \E rows \in RowLists, y \in Years :
          /\ input' = rows
          /\ games' = rows
          /\ year' = y
    /\ jpc' = "index"
    /\ UNCHANGED <<game_id_index, cursor, warnings>>
    /\ UNCHANGED rerunVars
    /\ UNCHANGED <<retryVars, playerVars, scriptVars>>

\* "for g1 in data["games"]: game_id_index[g1["game_id"]].append(g1)"
BuildIndex ==
    /\ jpc = "index"
    /\ game_id_index' =
          [g \in {games[k].game_id : k \in 1..Len(games)} |-> Positions(games, g)]
    /\ cursor' = 1
    /\ jpc' = "pair"
    /\ UNCHANGED <<games, warnings, year, input>>
    /\ UNCHANGED rerunVars
    /\ UNCHANGED <<retryVars, playerVars, scriptVars>>

\* one iteration of the second loop in which the unpacking raises
PairSkip ==
    /\ jpc = "pair"
    /\ cursor <= Len(games)
    /\ LET g1 == games[cursor] IN
       /\ ~Unpacks(game_id_index[g1.game_id])
       /\ IF Handles("ValueError")
            THEN /\ warnings' = Append(warnings, Warning(g1, year))
                 /\ cursor' = cursor + 1
                 /\ jpc' = jpc
            ELSE /\ jpc' = "raised"
                 /\ UNCHANGED <<warnings, cursor>>
    /\ UNCHANGED <<games, game_id_index, year, input>>
    /\ UNCHANGED rerunVars
    /\ UNCHANGED <<retryVars, playerVars, scriptVars>>

\* one iteration of the second loop in which the unpacking succeeds
PairAttach ==
    /\ jpc = "pair"
    /\ cursor <= Len(games)
    /\ LET g1 == games[cursor]
           group == game_id_index[g1.game_id]
       IN  /\ Unpacks(group)
           /\ LET a == games[group[1]]
                  b == games[group[2]]
                  g2 == Opponent(a, b, g1)
              IN  games' = [games EXCEPT ![cursor] = Attach(g1, g2)]
    /\ cursor' = cursor + 1
    /\ UNCHANGED <<jpc, game_id_index, warnings, year, input>>
    /\ UNCHANGED rerunVars
    /\ UNCHANGED <<retryVars, playerVars, scriptVars>>

\* "json.dump(data, open(DIR / f"team_efficiency_{year}.json", "w"))"; DIR is
\* the global set by the script's entry point (dl.py:431)
WriteJson ==
    /\ jpc = "pair"
    /\ cursor > Len(games)
    /\ jpc' = "done"
    /\ UNCHANGED <<games, game_id_index, cursor, warnings, year, input>>
    /\ UNCHANGED rerunVars
    /\ UNCHANGED <<retryVars, playerVars, scriptVars>>

JoinNext ==
    \/ DumpTeamEffJson
    \/ BuildIndex
    \/ PairSkip
    \/ PairAttach
    \/ WriteJson

JoinSpec == Init /\ [][JoinNext]_vars

\* the two loops (dl.py:187-201) run once more over data["games"] as the
\* first run left it
RunAgain ==
    /\ jpc = "done"
    /\ pass = 1
    /\ first' = games
    /\ pass' = 2
    /\ jpc' = "index"
    /\ UNCHANGED <<games, game_id_index, cursor, warnings, year, input>>
    /\ UNCHANGED <<retryVars, playerVars, scriptVars>>

RejoinNext == JoinNext \/ RunAgain

RejoinSpec == Init /\ [][RejoinNext]_vars

-----------------------------------------------------------------------------
(* fresh and download_player_stats: src/src/dl.py *)

\* exact fractions <<numerator, denominator>> for Python's true division
Frac(n) == <<n, 1>>
FracDiv(q, n) == <<q[1], q[2] * n>>
FracMul(q, n) == <<q[1] * n, q[2]>>
FracLess(q, n) == q[1] < n * q[2]

\* "fname.is_file() and (time() - fname.stat().st_mtime) / 60 * 60 < 1";
\* age is time() - st_mtime, in seconds
Fresh(is_file, age) ==
    is_file /\ FracLess(FracMul(FracDiv(Frac(age), 60), 60), 1)

\* ages, in seconds, of an existing file
Ages == {0, 1, 1800, 3599, 3600, 7200}

\* the states a season's file can be in when the loop reaches it
FileStates ==
    {[is_file |-> FALSE, age |-> 0]} \cup {[is_file |-> TRUE, age |-> a] : a \in Ages}

\* "if year != CURRENT_SEASON and Path(file).is_file(): ...
\*  elif year == CURRENT_SEASON and fresh(Path(file)): ..."
SeasonIsCachedOldOnly(y, is_file, age) == y # CURRENT_SEASON /\ is_file
SeasonIsCached(y, is_file, age) ==
    \/ (y # CURRENT_SEASON /\ is_file)
    \/ (y = CURRENT_SEASON /\ Fresh(is_file, age))

\* the record of a season as the loop body starts on it; fresh is called
\* only when the first test fails and year == CURRENT_SEASON
SeasonRecord(y, fs) ==
    [NoSeason EXCEPT !.year = y, !.is_file = fs.is_file, !.age = fs.age,
                     !.fresh_called = (y = CURRENT_SEASON),
                     !.fresh = (y = CURRENT_SEASON /\ Fresh(fs.is_file, fs.age))]

\* the (measure, per) arguments of the calls of get_dash_player_stats, in order
PerModes == <<"Totals", "PerGame", "Per36", "Per100Possessions">>
Measures == <<"Base", "Defense">>
DashPlanWithoutAdvanced ==
    [n \in 1..(Len(PerModes) * Len(Measures)) |->
        <<Measures[((n - 1) % Len(Measures)) + 1], PerModes[((n - 1) \div Len(Measures)) + 1]>>]
DashPlan ==
    [n \in 1..(Len(PerModes) * Len(Measures)) |->
        <<Measures[((n - 1) % Len(Measures)) + 1], PerModes[((n - 1) \div Len(Measures)) + 1]>>]
    \o << <<"Advanced", "Totals">> >>

\* datetime.datetime.now(datetime.UTC).isoformat(): local part and UTC offset
Instants == {"2025-10-21T23:30:00", "2026-11-04T22:06:00.123456"}
IsoFormat(t) == <<t, "+00:00">>

\* "datetime.datetime.now(datetime.UTC).isoformat() + "Z""
MetadataUpdatedPlain(t) == IsoFormat(t)
MetadataUpdated(t) == IsoFormat(t) \o <<"Z">>

Bump(rec, field) == [rec EXCEPT ![field] = @ + 1]

\* "playerstats = []; for year in range(FIRST_SEASON, CURRENT_SEASON + 1):"
DownloadPlayerStats ==
    /\ ppc = "start"
    /\ pyear' = FIRST_SEASON
    /\ ppc' = "season"
    /\ UNCHANGED <<cur, ptotal, pevents>>
    /\ UNCHANGED <<retryVars, joinVars, scriptVars>>

\* a season served from its file: "playerstats.append(pd.read_parquet(file)); continue"
SeasonCached ==
    /\ ppc = "season"
    /\ pyear <= CURRENT_SEASON
    /\ \E fs \in FileStates :
          /\ SeasonIsCached(pyear, fs.is_file, fs.age)
          /\ cur' = [SeasonRecord(pyear, fs) EXCEPT !.decision = "cached", !.reads = 1]
    /\ ptotal' = Bump(Bump(ptotal, "cached"), "reads")
    /\ pyear' = pyear + 1
    /\ UNCHANGED <<ppc, pevents>>
    /\ UNCHANGED <<retryVars, joinVars, scriptVars>>

\* a season that is downloaded: "print(f"Downloading {season} player stats"); stats = []"
SeasonDownload ==
    /\ ppc = "season"
    /\ pyear <= CURRENT_SEASON
    /\ \E fs \in FileStates :
          /\ ~SeasonIsCached(pyear, fs.is_file, fs.age)
          /\ cur' = [SeasonRecord(pyear, fs) EXCEPT !.decision = "download"]
    /\ ppc' = "dash"
    /\ UNCHANGED <<pyear, ptotal, pevents>>
    /\ UNCHANGED <<retryVars, joinVars, scriptVars>>

\* one call of get_dash_player_stats that returns: the two nested loops and
\* the call for ("Advanced", "Totals") after them
GetDashPlayerStats ==
    /\ ppc = "dash"
    /\ LET n == Len(cur.dash) + 1 IN
       /\ cur' = [cur EXCEPT !.dash = Append(@, DashPlan[n])]
       /\ ppc' = IF n = Len(DashPlan) THEN "twopt" ELSE "dash"
    /\ ptotal' = Bump(ptotal, "api")
    /\ UNCHANGED <<pyear, pevents>>
    /\ UNCHANGED <<retryVars, joinVars, scriptVars>>

\* "stats.append(get_2pt_shots(season))"
Get2ptShots ==
    /\ ppc = "twopt"
    /\ cur' = Bump(cur, "twopt")
    /\ ptotal' = Bump(ptotal, "api")
    /\ ppc' = "bio"
    /\ UNCHANGED <<pyear, pevents>>
    /\ UNCHANGED <<retryVars, joinVars, scriptVars>>

\* "stats.append(get_bio_stats(season))"
GetBioStats ==
    /\ ppc = "bio"
    /\ cur' = Bump(cur, "bio")
    /\ ptotal' = Bump(ptotal, "api")
    /\ ppc' = "join"
    /\ UNCHANGED <<pyear, pevents>>
    /\ UNCHANGED <<retryVars, joinVars, scriptVars>>

\* an API call whose retry gives up: RetryLimitExceeded leaves download_player_stats
ApiRaises ==
    /\ ppc \in {"dash", "twopt", "bio"}
    /\ ppc' = "raised"
    /\ ptotal' = Bump(ptotal, "api")
    /\ UNCHANGED <<pyear, cur, pevents>>
    /\ UNCHANGED <<retryVars, joinVars, scriptVars>>

\* "allstats = join(stats, on=["PLAYER_ID"])"
JoinStats ==
    /\ ppc = "join"
    /\ cur' = Bump(cur, "join")
    /\ ppc' = "convert"
    /\ UNCHANGED <<pyear, ptotal, pevents>>
    /\ UNCHANGED <<retryVars, joinVars, scriptVars>>

\* "convert_i64_to_i32(allstats)"
ConvertStats ==
    /\ ppc = "convert"
    /\ cur' = Bump(cur, "convert")
    /\ ppc' = "write"
    /\ UNCHANGED <<pyear, ptotal, pevents>>
    /\ UNCHANGED <<retryVars, joinVars, scriptVars>>

\* "playerstats.append(allstats); write_parquet(allstats, file)"
WriteSeason ==
    /\ ppc = "write"
    /\ cur' = [cur EXCEPT !.written = Append(@, <<"players", pyear>>)]
    /\ ptotal' = Bump(Bump(ptotal, "downloaded"), "writes")
    /\ pyear' = pyear + 1
    /\ ppc' = "season"
    /\ UNCHANGED pevents
    /\ UNCHANGED <<retryVars, joinVars, scriptVars>>

\* after the loop: "tryrm(outdir / "playerstats.parquet")"
TryRm ==
    /\ ppc = "season"
    /\ pyear > CURRENT_SEASON
    /\ pevents' = Append(pevents, <<"tryrm", "playerstats.parquet">>)
    /\ ptotal' = Bump(ptotal, "tryrm")
    /\ ppc' = "writeall"
    /\ UNCHANGED <<pyear, cur>>
    /\ UNCHANGED <<retryVars, joinVars, scriptVars>>

\* "write_parquet(allstats, outdir / "playerstats.parquet")"
WriteAll ==
    /\ ppc = "writeall"
    /\ pevents' = Append(pevents, <<"write_parquet", "playerstats.parquet">>)
    /\ ptotal' = Bump(ptotal, "writes")
    /\ ppc' = "metadata"
    /\ UNCHANGED <<pyear, cur>>
    /\ UNCHANGED <<retryVars, joinVars, scriptVars>>

\* "json.dump({"updated": ...isoformat() + "Z"}, open(outdir / "metadata.json", "w"))"
DumpMetadata ==
    /\ ppc = "metadata"
    /\ \E t \in Instants :
          pevents' = Append(pevents, <<"json.dump", "metadata.json", MetadataUpdated(t)>>)
    /\ ptotal' = Bump(ptotal, "metadata")
    /\ ppc' = "done"
    /\ UNCHANGED <<pyear, cur>>
    /\ UNCHANGED <<retryVars, joinVars, scriptVars>>

PlayerNext ==
    \/ DownloadPlayerStats
    \/ SeasonCached
    \/ SeasonDownload
    \/ GetDashPlayerStats
    \/ Get2ptShots
    \/ GetBioStats
    \/ ApiRaises
    \/ JoinStats
    \/ ConvertStats
    \/ WriteSeason
    \/ TryRm
    \/ WriteAll
    \/ DumpMetadata

PlayerSpec == Init /\ [][PlayerNext]_vars

-----------------------------------------------------------------------------
(* download_gamelogs: src/src/dl.py *)

MaxLogRows   == 2    \* rows in one answer of get_team_gamelogs
MaxPersons   == 2    \* players in one box score
MaxOldCopies == 2    \* times a box score is repeated in a playerlog file

\* "if year != CURRENT_SEASON and gamelog_file.is_file(): ...
\*  elif year == CURRENT_SEASON and fresh(gamelog_file): ..."
GamelogIsCached(y, is_file, age) ==
    \/ (y # CURRENT_SEASON /\ is_file)
    \/ (y = CURRENT_SEASON /\ Fresh(is_file, age))

\* the (GAME_ID, TEAM_ID) of the rows of one game
LogKeys == {<<1, 1>>, <<1, 2>>}

\* sequences without repetition over a set of keys
Distinct(keys, n) ==
    {q \in UNION {[1..m -> keys] : m \in 0..n} :
        \A a, b \in 1..Len(q) : a # b => q[a] # q[b]}

\* what get_team_gamelogs can answer: one row per game and team
TeamGameLogs ==
    {[k \in 1..Len(q) |-> [GAME_ID |-> q[k][1], TEAM_ID |-> q[k][2], src |-> "new"]] :
        q \in Distinct(LogKeys, MaxLogRows)}

\* a gamelog file as an earlier run wrote it
OldGameFiles ==
    {[k \in 1..Len(q) |-> [game_id |-> q[k][1], team_id |-> q[k][2], src |-> "old"]] :
        q \in Distinct(LogKeys, MaxLogRows)}

\* what get_box_score(game_id) answers: one row per player of the game
BoxScore(game_id, src) ==
    [p \in 1..MaxPersons |-> [gameId |-> game_id, personId |-> p, src |-> src]]

RECURSIVE Copies(_, _)
Copies(rows, n) == IF n = 0 THEN <<>> ELSE rows \o Copies(rows, n - 1)

\* a playerlog file as an earlier run wrote it: the box score of a game,
\* as many times as that run collected it
OldPlayerFiles == {Copies(BoxScore(1, "old"), n) : n \in 0..MaxOldCopies}

\* the measures of "for measure in [None, "Advanced"]"
LogMeasures == <<"None", "Advanced">>

\* x.merge(y, on=["GAME_ID", "TEAM_ID"], suffixes=("", "_DROP")) followed by
\* the filter that drops the _DROP columns: an inner join that keeps the
\* left frame's columns and order
RECURSIVE MergeOn(_, _)
MergeOn(x, y) ==
    IF x = <<>> THEN <<>>
    ELSE LET Same(r) == r.GAME_ID = Head(x).GAME_ID /\ r.TEAM_ID = Head(x).TEAM_ID
             hits == SelectSeq(y, Same)
         IN  [k \in 1..Len(hits) |-> Head(x)] \o MergeOn(Tail(x), y)

\* stats.join: reduce(lambda x, y: x.merge(y, ...), frames)
RECURSIVE join(_)
join(frames) ==
    IF Len(frames) = 1 THEN frames[1]
    ELSE MergeOn(join(SubSeq(frames, 1, Len(frames) - 1)), frames[Len(frames)])

\* "games.columns = games.columns.str.lower()"
LowerCase(rows) ==
    [k \in 1..Len(rows) |->
        [game_id |-> rows[k].GAME_ID, team_id |-> rows[k].TEAM_ID, src |-> rows[k].src]]

\* the rows at the positions of keep, in their order
PickRows(rows, keep) ==
    LET all == [k \in 1..Len(rows) |-> k]
        Kept(k) == k \in keep
        idx == SelectSeq(all, Kept)
    IN  [j \in 1..Len(idx) |-> rows[idx[j]]]

\* drop_duplicates(subset=["game_id", "team_id"], keep="last")
DropDuplicateGamesKeepFirst(rows) ==
    PickRows(rows, {k \in 1..Len(rows) :
        \A j \in 1..(k - 1) :
            <<rows[j].game_id, rows[j].team_id>> # <<rows[k].game_id, rows[k].team_id>>})
DropDuplicateGames(rows) ==
    PickRows(rows, {k \in 1..Len(rows) :
        \A j \in (k + 1)..Len(rows) :
            <<rows[j].game_id, rows[j].team_id>> # <<rows[k].game_id, rows[k].team_id>>})

\* drop_duplicates(subset=["gameId", "personId"], keep="last")
DropDuplicatePlayers(rows) ==
    PickRows(rows, {k \in 1..Len(rows) :
        \A j \in (k + 1)..Len(rows) :
            <<rows[j].gameId, rows[j].personId>> # <<rows[k].gameId, rows[k].personId>>})

\* pd.concat of a list of n frames: "No objects to concatenate" for n = 0
PdConcat(n) == IF n = 0 THEN "ValueError" ELSE "None"

NothingWritten(y) == [year |-> y, wrote |-> FALSE, gamelog |-> <<>>, playerlog |-> <<>>]

\* "game_seasons = []; player_seasons = []; for year in range(...)"
DownloadGamelogs ==
    /\ gpc = "start"
    /\ gyear' = FIRST_SEASON
    /\ game_seasons' = 0
    /\ player_seasons' = 0
    /\ gpc' = "season"
    /\ UNCHANGED <<old_games, old_playerlogs, logs, rcur, playerlogs,
                   season_games, gwritten, gevents, gerr>>
    /\ UNCHANGED <<retryVars, joinVars, playerVars, espnVars, backfillVars, oldVars>>

\* a season served from its file:
\* "game_seasons.append(pd.read_parquet(gamelog_file)); continue"
GamelogCached ==
    /\ gpc = "season"
    /\ gyear <= CURRENT_SEASON
    /\ \E fs \in FileStates : GamelogIsCached(gyear, fs.is_file, fs.age)
    /\ old_games' = NoFrame
    /\ old_playerlogs' = NoFrame
    /\ game_seasons' = game_seasons + 1
    /\ gwritten' = NothingWritten(gyear)
    /\ gyear' = gyear + 1
    /\ UNCHANGED <<gpc, player_seasons, logs, rcur, playerlogs, season_games,
                   gevents, gerr>>
    /\ UNCHANGED <<retryVars, joinVars, playerVars, espnVars, backfillVars, oldVars>>

\* a season that is downloaded: the two files are read when they exist, then
\* "logs = []; playerlogs = pd.DataFrame()"
GamelogDownload ==
    /\ gpc = "season"
    /\ gyear <= CURRENT_SEASON
    /\ \E fs \in FileStates :
          /\ ~GamelogIsCached(gyear, fs.is_file, fs.age)
          /\ IF fs.is_file
               THEN \E rows \in OldGameFiles : old_games' = Frame(rows)
               ELSE old_games' = NoFrame
    /\ \/ old_playerlogs' = NoFrame
       \/ \E rows \in OldPlayerFiles : old_playerlogs' = Frame(rows)
    /\ logs' = <<>>
    /\ playerlogs' = <<>>
    /\ gwritten' = NothingWritten(gyear)
    /\ gpc' = "measure"
    /\ UNCHANGED <<gyear, game_seasons, player_seasons, rcur, season_games,
                   gevents, gerr>>
    /\ UNCHANGED <<retryVars, joinVars, playerVars, espnVars, backfillVars, oldVars>>

\* "gamelogs = get_team_gamelogs(season, most_recent, measure); logs.append(gamelogs)"
GetTeamGamelogs ==
    /\ gpc = "measure"
    /\ \E rows \in TeamGameLogs : logs' = Append(logs, rows)
    /\ rcur' = 1
    /\ gpc' = "box"
    /\ UNCHANGED <<gyear, game_seasons, player_seasons, old_games, old_playerlogs,
                   playerlogs, season_games, gwritten, gevents, gerr>>
    /\ UNCHANGED <<retryVars, joinVars, playerVars, espnVars, backfillVars, oldVars>>

\* "for _, game_id in gamelogs["GAME_ID"].items():
\*      playerlogs = pd.concat([playerlogs, get_box_score(game_id)])"
CollectBoxScore ==
    /\ gpc = "box"
    /\ rcur <= Len(logs[Len(logs)])
    /\ playerlogs' = playerlogs \o BoxScore(logs[Len(logs)][rcur].GAME_ID, "new")
    /\ rcur' = rcur + 1
    /\ UNCHANGED <<gpc, gyear, game_seasons, player_seasons, old_games,
                   old_playerlogs, logs, season_games, gwritten, gevents, gerr>>
    /\ UNCHANGED <<retryVars, joinVars, playerVars, espnVars, backfillVars, oldVars>>

\* the inner loop is over: next measure, or on to the join
NextMeasure ==
    /\ gpc = "box"
    /\ rcur > Len(logs[Len(logs)])
    /\ gpc' = IF Len(logs) < Len(LogMeasures) THEN "measure" ELSE "join"
    /\ UNCHANGED <<gyear, game_seasons, player_seasons, old_games, old_playerlogs,
                   logs, rcur, playerlogs, season_games, gwritten, gevents, gerr>>
    /\ UNCHANGED <<retryVars, joinVars, playerVars, espnVars, backfillVars, oldVars>>

\* an API call whose retry gives up: RetryLimitExceeded leaves download_gamelogs
GamelogApiRaises ==
    /\ \/ gpc = "measure"
       \/ gpc = "box" /\ rcur <= Len(logs[Len(logs)])
       \/ gpc = "dump"
    /\ gerr' = "RetryLimitExceeded"
    /\ gpc' = "raised"
    /\ UNCHANGED <<gyear, game_seasons, player_seasons, old_games, old_playerlogs,
                   logs, rcur, playerlogs, season_games, gwritten, gevents>>
    /\ UNCHANGED <<retryVars, joinVars, playerVars, espnVars, backfillVars, oldVars>>

\* "games = join(logs, on=["GAME_ID", "TEAM_ID"]); games.columns = ...lower()"
JoinLogs ==
    /\ gpc = "join"
    /\ season_games' = LowerCase(join(logs))
    /\ gpc' = "merge"
    /\ UNCHANGED <<gyear, game_seasons, player_seasons, old_games, old_playerlogs,
                   logs, rcur, playerlogs, gwritten, gevents, gerr>>
    /\ UNCHANGED <<retryVars, joinVars, playerVars, espnVars, backfillVars, oldVars>>

\* "if old_games is not None: games = pd.concat([old_games, games]).drop_duplicates(...)
\*  if old_playerlogs is not None: playerlogs = pd.concat([old_playerlogs, playerlogs])
\*      .drop_duplicates(...)", then reset_index and convert_i64_to_i32, which
\* keep the rows
MergeOld ==
    /\ gpc = "merge"
    /\ season_games' = IF old_games.none THEN season_games
                       ELSE DropDuplicateGames(old_games.rows \o season_games)
    /\ playerlogs' = IF old_playerlogs.none THEN playerlogs
                     ELSE DropDuplicatePlayers(old_playerlogs.rows \o playerlogs)
    /\ gpc' = "dump"
    /\ UNCHANGED <<gyear, game_seasons, player_seasons, old_games, old_playerlogs,
                   logs, rcur, gwritten, gevents, gerr>>
    /\ UNCHANGED <<retryVars, joinVars, playerVars, espnVars, backfillVars, oldVars>>

\* "dump_team_eff_json(games, year); dump_team_summaries(season, year, outdir)"
DumpSeason ==
    /\ gpc = "dump"
    /\ gpc' = "write"
    /\ UNCHANGED <<gyear, game_seasons, player_seasons, old_games, old_playerlogs,
                   logs, rcur, playerlogs, season_games, gwritten, gevents, gerr>>
    /\ UNCHANGED <<retryVars, joinVars, playerVars, espnVars, backfillVars, oldVars>>

\* "game_seasons.append(games); write_parquet(games, gamelog_file);
\*  player_seasons.append(playerlogs); write_parquet(playerlogs, playerlog_file)".
\* Every local of the loop body is bound again before it is next read, so
\* the values the body leaves behind are dropped here.
WriteGamelogSeason ==
    /\ gpc = "write"
    /\ game_seasons' = game_seasons + 1
    /\ player_seasons' = player_seasons + 1
    /\ gwritten' = [year |-> gyear, wrote |-> TRUE,
                    gamelog |-> season_games, playerlog |-> playerlogs]
    /\ gyear' = gyear + 1
    /\ gpc' = "season"
    /\ old_games' = NoFrame
    /\ old_playerlogs' = NoFrame
    /\ logs' = <<>>
    /\ rcur' = 0
    /\ playerlogs' = <<>>
    /\ season_games' = <<>>
    /\ UNCHANGED <<gevents, gerr>>
    /\ UNCHANGED <<retryVars, joinVars, playerVars, espnVars, backfillVars, oldVars>>

\* "all_game_seasons = pd.concat(game_seasons)"
ConcatGameSeasons ==
    /\ gpc = "season"
    /\ gyear > CURRENT_SEASON
    /\ IF PdConcat(game_seasons) = "None"
         THEN gpc' = "concat_players" /\ gerr' = gerr
         ELSE gpc' = "raised" /\ gerr' = PdConcat(game_seasons)
    /\ UNCHANGED <<gyear, game_seasons, player_seasons, old_games, old_playerlogs,
                   logs, rcur, playerlogs, season_games, gwritten, gevents>>
    /\ UNCHANGED <<retryVars, joinVars, playerVars, espnVars, backfillVars, oldVars>>

\* "all_player_seasons = pd.concat(player_seasons)"
ConcatPlayerSeasons ==
    /\ gpc = "concat_players"
    /\ IF PdConcat(player_seasons) = "None"
         THEN gpc' = "summaries" /\ gerr' = gerr
         ELSE gpc' = "raised" /\ gerr' = PdConcat(player_seasons)
    /\ UNCHANGED <<gyear, game_seasons, player_seasons, old_games, old_playerlogs,
                   logs, rcur, playerlogs, season_games, gwritten, gevents>>
    /\ UNCHANGED <<retryVars, joinVars, playerVars, espnVars, backfillVars, oldVars>>

\* "write_all_team_summaries(outdir)"
WriteAllTeamSummaries ==
    /\ gpc = "summaries"
    /\ gpc' = "gamelogs"
    /\ UNCHANGED <<gyear, game_seasons, player_seasons, old_games, old_playerlogs,
                   logs, rcur, playerlogs, season_games, gwritten, gevents, gerr>>
    /\ UNCHANGED <<retryVars, joinVars, playerVars, espnVars, backfillVars, oldVars>>

\* "tryrm(outdir / "gamelogs.parquet");
\*  write_parquet(all_game_seasons, outdir / "gamelogs.parquet")"
WriteGamelogsParquet ==
    /\ gpc = "gamelogs"
    /\ gevents' = gevents \o << <<"tryrm", "gamelogs.parquet">>,
                    <<"write_parquet", "all_game_seasons", "gamelogs.parquet">> >>
    /\ gpc' = "player_game_logs"
    /\ UNCHANGED <<gyear, game_seasons, player_seasons, old_games, old_playerlogs,
                   logs, rcur, playerlogs, season_games, gwritten, gerr>>
    /\ UNCHANGED <<retryVars, joinVars, playerVars, espnVars, backfillVars, oldVars>>

\* "tryrm(outdir / "player_game_logs.parquet");
\*  write_parquet(all_game_seasons, outdir / "player_game_logs.parquet")"
WritePlayerGameLogsParquet ==
    /\ gpc = "player_game_logs"
    /\ gevents' = gevents \o << <<"tryrm", "player_game_logs.parquet">>,
                    <<"write_parquet", "all_game_seasons", "player_game_logs.parquet">> >>
    /\ gpc' = "done"
    /\ UNCHANGED <<gyear, game_seasons, player_seasons, old_games, old_playerlogs,
                   logs, rcur, playerlogs, season_games, gwritten, gerr>>
    /\ UNCHANGED <<retryVars, joinVars, playerVars, espnVars, backfillVars, oldVars>>

GamelogNext ==
    \/ DownloadGamelogs
    \/ GamelogCached
    \/ GamelogDownload
    \/ GetTeamGamelogs
    \/ CollectBoxScore
    \/ NextMeasure
    \/ GamelogApiRaises
    \/ JoinLogs
    \/ MergeOld
    \/ DumpSeason
    \/ WriteGamelogSeason
    \/ ConcatGameSeasons
    \/ ConcatPlayerSeasons
    \/ WriteAllTeamSummaries
    \/ WriteGamelogsParquet
    \/ WritePlayerGameLogsParquet

GamelogSpec == Init /\ [][GamelogNext]_vars

-----------------------------------------------------------------------------
(* espn.main and fetch_espn_data: src/src/espn.py *)

ESPN_CURRENT_SEASON == 2024

\* the literal 2021 in "range(2021 if opts.every_season else CURRENT_SEASON, ...)"
EspnFirstSeason == 2021

MaxSeasonDays == 3     \* days from a season's 10-15 to its 06-30
OffSeasonDays == 2     \* days from a 06-30 to the next 10-15

\* days are numbered from the 10-15 of the first season
SeasonStart(s) == (s - EspnFirstSeason) * (MaxSeasonDays + OffSeasonDays) + 1
SeasonEnd(s) == SeasonStart(s) + MaxSeasonDays - 1

\* the days on which the script can be run
Nows == 1..((ESPN_CURRENT_SEASON - EspnFirstSeason + 1) * (MaxSeasonDays + OffSeasonDays))

\* strftime("%Y-%m-%d") of a day
Strftime(d) == <<"%Y-%m-%d", d>>

\* daterange(start_date_str, end_date_str): the days from start while
\* "current_date <= end_date and current_date <= datetime.now()"
DateRange(start, end, n) ==
    LET last == IF end <= n THEN end ELSE n
    IN  [k \in 1..(last - start + 1) |-> Strftime(start + k - 1)]

\* "if outfile.is_file() and date not in [today, yesterday]: continue"
SkipsUnlessToday(is_file, d, t, y) == is_file /\ d # t
Skips(is_file, d, t, y) == is_file /\ d \notin {t, y}

\* the errors the statements of the try block raise
FetchErrors == {"EndpointConnectionError", "ClientError", "KeyError", "JSONDecodeError"}

\* "except Exception as e"
EspnCatchesClientError(e) == e = "ClientError"
EspnCatches(e) == e \in FetchErrors

\* what json.loads returns: a non-empty document, or an empty one
Documents == {"document", "empty"}

\* "if data:"
Truthy(d) == d = "document"

\* "for season in range(2021 if opts.every_season else CURRENT_SEASON, CURRENT_SEASON + 1)"
EspnMain ==
    /\ epc = "start"
    /\ \E e \in BOOLEAN, n \in Nows :
          /\ every_season' = e
          /\ now' = n
          /\ season' = IF e THEN EspnFirstSeason ELSE ESPN_CURRENT_SEASON
    /\ epc' = "season"
    /\ UNCHANGED <<dates, dcur, today, yesterday, ecur, data>>
    /\ UNCHANGED <<retryVars, joinVars, playerVars, gamelogVars, backfillVars, oldVars>>

\* "os.makedirs(output_dir, exist_ok=True); dates = daterange(...);
\*  today = ...; yesterday = ..."
EspnSeason ==
    /\ epc = "season"
    /\ season <= ESPN_CURRENT_SEASON
    /\ dates' = DateRange(SeasonStart(season), SeasonEnd(season), now)
    /\ today' = Strftime(now)
    /\ yesterday' = Strftime(now - 1)
    /\ dcur' = 1
    /\ epc' = "date"
    /\ UNCHANGED <<every_season, now, season, ecur, data>>
    /\ UNCHANGED <<retryVars, joinVars, playerVars, gamelogVars, backfillVars, oldVars>>

\* a date that is passed over: "continue"
EspnSkipDate ==
    /\ epc = "date"
    /\ dcur <= Len(dates)
    /\ \E is_file \in BOOLEAN :
          /\ Skips(is_file, dates[dcur], today, yesterday)
          /\ ecur' = [NoDate EXCEPT !.idx = dcur, !.date = dates[dcur],
                                    !.is_file = is_file,
                                    !.before = "old", !.after = "old"]
    /\ dcur' = dcur + 1
    /\ UNCHANGED <<epc, every_season, now, season, dates, today, yesterday, data>>
    /\ UNCHANGED <<retryVars, joinVars, playerVars, gamelogVars, backfillVars, oldVars>>

\* "data = fetch_espn_data(season, date)": the call, up to the Cognito
\* client that is built before the try block (building it sends no request)
FetchEspnData ==
    /\ epc = "date"
    /\ dcur <= Len(dates)
    /\ \E is_file \in BOOLEAN :
          /\ ~Skips(is_file, dates[dcur], today, yesterday)
          /\ ecur' = [NoDate EXCEPT !.idx = dcur, !.date = dates[dcur],
                                    !.is_file = is_file, !.fetched = TRUE,
                                    !.before = IF is_file THEN "old" ELSE "absent",
                                    !.after = IF is_file THEN "old" ELSE "absent"]
    /\ epc' = "try"
    /\ UNCHANGED <<every_season, now, season, dates, dcur, today, yesterday, data>>
    /\ UNCHANGED <<retryVars, joinVars, playerVars, gamelogVars, backfillVars, oldVars>>

\* the try block runs to "return json.loads(...)"
FetchReturns ==
    /\ epc = "try"
    /\ \E d \in Documents : data' = d
    /\ epc' = "fetched"
    /\ UNCHANGED <<every_season, now, season, dates, dcur, today, yesterday, ecur>>
    /\ UNCHANGED <<retryVars, joinVars, playerVars, gamelogVars, backfillVars, oldVars>>

\* a statement of the try block raises: "print(...); return None"
FetchFails ==
    /\ epc = "try"
    /\ \E e \in FetchErrors :
          /\ ecur' = [ecur EXCEPT !.error = e]
          /\ IF EspnCatches(e)
               THEN data' = "None" /\ epc' = "fetched"
               ELSE data' = data /\ epc' = "raised"
    /\ UNCHANGED <<every_season, now, season, dates, dcur, today, yesterday>>
    /\ UNCHANGED <<retryVars, joinVars, playerVars, gamelogVars, backfillVars, oldVars>>

\* "if data: with open(outfile, "w") as f: json.dump(data, f, indent=2)"
SaveData ==
    /\ epc = "fetched"
    /\ Truthy(data)
    /\ ecur' = [ecur EXCEPT !.wrote = TRUE, !.after = "new"]
    /\ dcur' = dcur + 1
    /\ epc' = "date"
    /\ UNCHANGED <<every_season, now, season, dates, today, yesterday, data>>
    /\ UNCHANGED <<retryVars, joinVars, playerVars, gamelogVars, backfillVars, oldVars>>

\* "else: print(f"No data available for {date}, skipping")"
NoData ==
    /\ epc = "fetched"
    /\ ~Truthy(data)
    /\ dcur' = dcur + 1
    /\ epc' = "date"
    /\ UNCHANGED <<every_season, now, season, dates, today, yesterday, ecur, data>>
    /\ UNCHANGED <<retryVars, joinVars, playerVars, gamelogVars, backfillVars, oldVars>>

\* the dates of the season are exhausted
EspnNextSeason ==
    /\ epc = "date"
    /\ dcur > Len(dates)
    /\ season' = season + 1
    /\ epc' = "season"
    /\ UNCHANGED <<every_season, now, dates, dcur, today, yesterday, ecur, data>>
    /\ UNCHANGED <<retryVars, joinVars, playerVars, gamelogVars, backfillVars, oldVars>>

\* "dump_to_parquet(opts.espndir, opts.espndir)", which re-raises what the
\* processing of a file raises
DumpToParquet ==
    /\ epc = "season"
    /\ season > ESPN_CURRENT_SEASON
    /\ epc' \in {"done", "raised"}
    /\ UNCHANGED <<every_season, now, season, dates, dcur, today, yesterday, ecur, data>>
    /\ UNCHANGED <<retryVars, joinVars, playerVars, gamelogVars, backfillVars, oldVars>>

EspnNext ==
    \/ EspnMain
    \/ EspnSeason
    \/ EspnSkipDate
    \/ FetchEspnData
    \/ FetchReturns
    \/ FetchFails
    \/ SaveData
    \/ NoData
    \/ EspnNextSeason
    \/ DumpToParquet

EspnSpec == Init /\ [][EspnNext]_vars

-----------------------------------------------------------------------------
(* backfill_player_details: src/src/backfill_player_details.py *)

MaxFiles == 3      \* JSON files in one season directory

\* "seasons = [2021, 2022, 2023, 2024]"
BackfillSeasons == <<2021, 2022, 2023, 2024>>

\* what a key of a loaded file can hold: no such key, an empty list, or data
Contents == {"absent", "empty", "nonempty"}

\* "len(data.get("four_factors", []))" and "len(data["player_details"])"
LenOf(c) == IF c = "nonempty" THEN 1 ELSE 0

\* ""player_details" in data and len(data["player_details"]) > 0"
HasDetailsWhenEmpty(c) == c # "absent" /\ LenOf(c) = 0
HasDetails(c) == c # "absent" /\ LenOf(c) > 0

\* the errors get_object and the decoding of its body raise, with the code
\* their message shows
S3Errors ==
    {[class |-> "NoSuchKey", code |-> "NoSuchKey"],
     [class |-> "ClientError", code |-> "AccessDenied"],
     [class |-> "ClientError", code |-> "InternalError"],
     [class |-> "EndpointConnectionError", code |-> "None"],
     [class |-> "JSONDecodeError", code |-> "None"]}

NoError == [class |-> "None", code |-> "None"]

\* "except s3.exceptions.NoSuchKey"
IsNoSuchKey(e) == e.class = "NoSuchKey"

\* ""AccessDenied" in str(e) and len(data.get("four_factors", [])) == 0"
IsNoGamesDayWhateverFactors(e, ff) == e.code = "AccessDenied"
IsNoGamesDay(e, ff) == e.code = "AccessDenied" /\ LenOf(ff) = 0

\* "updated = 0; skipped = 0; errors = 0"
NoCounts == [updated |-> 0, skipped |-> 0, errors |-> 0]

\* the season summary printed at line 112
Summary(s, n, c) ==
    [season |-> s, files |-> n, updated |-> c.updated, skipped |-> c.skipped,
     errors |-> c.errors]

\* "for season in seasons:" after "s3 = get_s3_client()"
BackfillPlayerDetails ==
    /\ bpc = "start"
    /\ scur' = 1
    /\ bpc' = "season"
    /\ UNCHANGED <<json_files, fcur, counts, bcur, summary>>
    /\ UNCHANGED <<retryVars, joinVars, playerVars, gamelogVars, espnVars, oldVars>>

\* get_s3_client asks Cognito for credentials outside any try block
GetS3ClientRaises ==
    /\ bpc = "start"
    /\ bpc' = "raised"
    /\ UNCHANGED <<scur, json_files, fcur, counts, bcur, summary>>
    /\ UNCHANGED <<retryVars, joinVars, playerVars, gamelogVars, espnVars, oldVars>>

\* "if not season_dir.exists(): print(...); continue"
SeasonDirMissing ==
    /\ bpc = "season"
    /\ scur <= Len(BackfillSeasons)
    /\ scur' = scur + 1
    /\ UNCHANGED <<bpc, json_files, fcur, counts, bcur, summary>>
    /\ UNCHANGED <<retryVars, joinVars, playerVars, gamelogVars, espnVars, oldVars>>

\* "json_files = sorted(season_dir.glob("*.json")); updated = 0; ..."
SeasonStarts ==
    /\ bpc = "season"
    /\ scur <= Len(BackfillSeasons)
    /\ \E n \in 0..MaxFiles : json_files' = n
    /\ counts' = NoCounts
    /\ fcur' = 1
    /\ bpc' = "file"
    /\ UNCHANGED <<scur, bcur, summary>>
    /\ UNCHANGED <<retryVars, joinVars, playerVars, gamelogVars, espnVars, oldVars>>

\* the file as json.load returns it
Loaded(idx, details, ff, c) ==
    [idx |-> idx, details |-> details, four_factors |-> ff, was |-> c,
     requests |-> 0, writes |-> 0, error |-> NoError, on_disk |-> details]

\* a file that has player_details: "skipped += 1; continue"
SkipFile ==
    /\ bpc = "file"
    /\ fcur <= json_files
    /\ \E details \in Contents, ff \in Contents :
          /\ HasDetails(details)
          /\ bcur' = Loaded(fcur, details, ff, counts)
    /\ counts' = Bump(counts, "skipped")
    /\ fcur' = fcur + 1
    /\ UNCHANGED <<bpc, scur, json_files, summary>>
    /\ UNCHANGED <<retryVars, joinVars, playerVars, gamelogVars, espnVars, oldVars>>

\* a file that lacks player_details: on to the request
LoadFile ==
    /\ bpc = "file"
    /\ fcur <= json_files
    /\ \E details \in Contents, ff \in Contents :
          /\ ~HasDetails(details)
          /\ bcur' = Loaded(fcur, details, ff, counts)
    /\ bpc' = "fetch"
    /\ UNCHANGED <<scur, json_files, fcur, counts, summary>>
    /\ UNCHANGED <<retryVars, joinVars, playerVars, gamelogVars, espnVars, oldVars>>

\* the try block runs through: the details are added, the file is written
\* back, "updated += 1"
FetchDetails ==
    /\ bpc = "fetch"
    /\ bcur' = [bcur EXCEPT !.requests = @ + 1, !.writes = @ + 1,
                            !.on_disk = "fetched"]
    /\ counts' = Bump(counts, "updated")
    /\ fcur' = fcur + 1
    /\ bpc' = "file"
    /\ UNCHANGED <<scur, json_files, summary>>
    /\ UNCHANGED <<retryVars, joinVars, playerVars, gamelogVars, espnVars, oldVars>>

\* get_object or the decoding raises: the two except clauses
FetchDetailsFails ==
    /\ bpc = "fetch"
    /\ \E e \in S3Errors :
          IF IsNoSuchKey(e) \/ IsNoGamesDay(e, bcur.four_factors)
            THEN /\ bcur' = [bcur EXCEPT !.requests = @ + 1, !.writes = @ + 1,
                                         !.error = e, !.on_disk = "empty"]
                 /\ counts' = Bump(counts, "skipped")
            ELSE /\ bcur' = [bcur EXCEPT !.requests = @ + 1, !.error = e]
                 /\ counts' = Bump(counts, "errors")
    /\ fcur' = fcur + 1
    /\ bpc' = "file"
    /\ UNCHANGED <<scur, json_files, summary>>
    /\ UNCHANGED <<retryVars, joinVars, playerVars, gamelogVars, espnVars, oldVars>>

\* the files of the season are exhausted: the summary is printed
SeasonEnds ==
    /\ bpc = "file"
    /\ fcur > json_files
    /\ summary' = Summary(BackfillSeasons[scur], json_files, counts)
    /\ scur' = scur + 1
    /\ bpc' = "season"
    /\ UNCHANGED <<json_files, fcur, counts, bcur>>
    /\ UNCHANGED <<retryVars, joinVars, playerVars, gamelogVars, espnVars, oldVars>>

\* the seasons are exhausted
BackfillReturns ==
    /\ bpc = "season"
    /\ scur > Len(BackfillSeasons)
    /\ bpc' = "done"
    /\ UNCHANGED <<scur, json_files, fcur, counts, bcur, summary>>
    /\ UNCHANGED <<retryVars, joinVars, playerVars, gamelogVars, espnVars, oldVars>>

BackfillNext ==
    \/ BackfillPlayerDetails
    \/ GetS3ClientRaises
    \/ SeasonDirMissing
    \/ SeasonStarts
    \/ SkipFile
    \/ LoadFile
    \/ FetchDetails
    \/ FetchDetailsFails
    \/ SeasonEnds
    \/ BackfillReturns

BackfillSpec == Init /\ [][BackfillNext]_vars

-----------------------------------------------------------------------------
(* the earlier retry: src/dl.py.  It is run on the same callable and keyword
   arguments as the retry of src/src/stats.py, and every invocation it makes
   ends the way the same invocation of that retry ended. *)

\* the literal list indexed at dl.py:103
old_schedule == <<1, 2, 5, 10, 15, 20, 25, 25, 25, 50, 50, 100>>

\* "if i > 11"
OldLimitReached(n) == n > 11

\* "timeout = [...][i]"
OldDelaySixty(n) == 60
OldDelay(n) == old_schedule[n + 1]

\* "raise Exception("retry limit exceeded")"
OldLimitError == [type |-> "Exception", seq |-> 0]

\* the retry of stats.py has made the invocation this retry is about to
\* make, and how it ended is still in its state
Answered ==
    /\ calls = old_calls + 1
    /\ pc \in {"except", "traceback", "sleep", "returned", "raised"}

\* "i = 0"
OldRetryEnter ==
    /\ old_pc = "start"
    /\ pc # "start"
    /\ old_i' = 0
    /\ old_timeout' = 0
    /\ old_exc' = None
    /\ old_result' = 0
    /\ old_err' = None
    /\ old_calls' = 0
    /\ old_log' = <<>>
    /\ old_pc' = "call"
    /\ UNCHANGED <<retryVars, joinVars, playerVars, gamelogVars, espnVars, backfillVars>>

\* "return f(**kwargs)" when f returns
OldInvokeReturns ==
    /\ old_pc = "call"
    /\ Answered
    /\ pc = "returned"
    /\ old_calls' = old_calls + 1
    /\ old_log' = old_log \o <<Event("call", 0), Event("return", result)>>
    /\ old_result' = result
    /\ old_pc' = "returned"
    /\ UNCHANGED <<old_i, old_timeout, old_exc, old_err>>
    /\ UNCHANGED <<retryVars, joinVars, playerVars, gamelogVars, espnVars, backfillVars>>

\* "return f(**kwargs)" when f raises: "except Exception as exc"
OldInvokeRaises ==
    /\ old_pc = "call"
    /\ Answered
    /\ pc # "returned"
    /\ old_calls' = old_calls + 1
    /\ old_log' = Append(old_log, Event("call", 0))
    /\ old_exc' = exc
    /\ old_pc' = "except"
    /\ UNCHANGED <<old_i, old_timeout, old_result, old_err>>
    /\ UNCHANGED <<retryVars, joinVars, playerVars, gamelogVars, espnVars, backfillVars>>

\* "if i > 11: raise Exception("retry limit exceeded")"
OldRaiseLimit ==
    /\ old_pc = "except"
    /\ OldLimitReached(old_i)
    /\ old_err' = OldLimitError
    /\ old_pc' = "raised"
    /\ UNCHANGED <<old_i, old_timeout, old_exc, old_result, old_calls, old_log>>
    /\ UNCHANGED <<retryVars, joinVars, playerVars, gamelogVars, espnVars, backfillVars>>

\* "timeout = [...][i]; i += 1; print(f"failed ...")"
OldBackoff ==
    /\ old_pc = "except"
    /\ ~OldLimitReached(old_i)
    /\ IF old_i + 1 \in DOMAIN old_schedule
         THEN /\ old_timeout' = OldDelay(old_i)
              /\ old_i' = old_i + 1
              /\ old_log' = Append(old_log, Event("print", old_timeout'))
              /\ old_pc' = "sleep"
              /\ old_err' = old_err
         ELSE /\ old_err' = [type |-> "IndexError", seq |-> 0]
              /\ old_pc' = "raised"
              /\ UNCHANGED <<old_timeout, old_i, old_log>>
    /\ UNCHANGED <<old_exc, old_result, old_calls>>
    /\ UNCHANGED <<retryVars, joinVars, playerVars, gamelogVars, espnVars, backfillVars>>

\* "sleep(timeout)", then "while 1" again
OldSleep ==
    /\ old_pc = "sleep"
    /\ old_log' = Append(old_log, Event("sleep", old_timeout))
    /\ old_exc' = None
    /\ old_pc' = "call"
    /\ UNCHANGED <<old_i, old_timeout, old_result, old_err, old_calls>>
    /\ UNCHANGED <<retryVars, joinVars, playerVars, gamelogVars, espnVars, backfillVars>>

\* The two retries share nothing but f, so the order in which their steps
\* are taken does not change what either does.  The runs examined are those
\* in which the retry of stats.py starts its next round only once this retry
\* has made the invocation of the round before.
InStep == old_calls = calls

BothNext ==
    \/ \E g \in GameIds : GetBoxScore(g)
    \/ LoopTest
    \/ \E v \in Values : InvokeReturns(v)
    \/ \E t \in ErrorClasses : InvokeRaises(t)
    \/ RaiseLimit
    \/ Backoff
    \/ PrintTraceback
    \/ InStep /\ Sleep
    \/ OldRetryEnter
    \/ OldInvokeReturns
    \/ OldInvokeRaises
    \/ OldRaiseLimit
    \/ OldBackoff
    \/ OldSleep

BothSpec == Init /\ [][BothNext]_vars

-----------------------------------------------------------------------------
(* Claims about the opponent-pairing pass *)

OppFields == {"opp_pts", "opp_poss"}

\* the positions of the input rows that share row k's game identifier
GroupOf(k) == {j \in 1..Len(input) : input[j].game_id = input[k].game_id}

\* row k belongs to a game with exactly two rows, of different teams
WellFormed(k) ==
    /\ Cardinality(GroupOf(k)) = 2
    /\ \A j \in GroupOf(k) : j # k => input[j].team_id # input[k].team_id

OtherOf(k) == CHOOSE j \in GroupOf(k) : j # k

\* C8: once the pass has run, every row of a two-row game whose rows have
\* different team identifiers carries the pts and poss of the other row of
\* its game as opp_pts and opp_poss (so the two rows mirror each other).
C8_OpponentAttached ==
    jpc = "done" =>
        \A k \in 1..Len(input) :
            WellFormed(k) =>
                /\ OppFields \subseteq DOMAIN games[k]
                /\ games[k].opp_pts = input[OtherOf(k)].pts
                /\ games[k].opp_poss = input[OtherOf(k)].poss
                /\ games[OtherOf(k)].opp_pts = games[k].pts
                /\ games[OtherOf(k)].opp_poss = games[k].poss

C8_Witness ==
    /\ jpc = "done"
    /\ Len(input) = 3
    /\ input[1] = [game_id |-> 1, team_id |-> 1, pts |-> 100, poss |-> 90]
    /\ input[2] = [game_id |-> 2, team_id |-> 1, pts |-> 100, poss |-> 90]
    /\ input[3] = [game_id |-> 1, team_id |-> 2, pts |-> 95, poss |-> 88]
    /\ games[1].opp_pts = 95 /\ games[1].opp_poss = 88
    /\ games[3].opp_pts = 100 /\ games[3].opp_poss = 90

\* C9: a row whose game has 1 row or 3 or more rows never gains opponent
\* fields; once the loop has passed it, a warning naming its game identifier
\* and the year has been printed; no exception leaves the pass, and the pass
\* goes on to the end of the rows.
C9_MalformedSkipped ==
    /\ jpc # "raised"
    /\ jpc # "start" =>
          \A k \in 1..Len(input) :
              Cardinality(GroupOf(k)) # 2 =>
                  /\ DOMAIN games[k] \cap OppFields = {}
                  /\ (jpc = "done" \/ (jpc = "pair" /\ k < cursor)) =>
                        \E w \in 1..Len(warnings) :
                            warnings[w] = [game_id |-> input[k].game_id, year |-> year]
    /\ jpc = "done" =>
          /\ cursor = Len(input) + 1
          /\ Len(warnings) =
                Cardinality({k \in 1..Len(input) : Cardinality(GroupOf(k)) # 2})
          /\ \A k \in 1..Len(input) :
                Cardinality(GroupOf(k)) = 2 => OppFields \subseteq DOMAIN games[k]

\* a one-row game, met first, then a well-formed pair that is still paired
C9_Witness ==
    /\ jpc = "done"
    /\ Len(input) = 3
    /\ input[1].game_id = 2
    /\ input[2].game_id = 1 /\ input[3].game_id = 1
    /\ input[2].team_id # input[3].team_id
    /\ year = 2025
    /\ warnings = <<[game_id |-> 2, year |-> 2025]>>
    /\ DOMAIN games[1] = {"game_id", "team_id", "pts", "poss"}
    /\ "opp_pts" \in DOMAIN games[2]

\* C10: the pass keeps the rows and their order, keeps every field a row
\* came in with, adds nothing but opp_pts and opp_poss, and leaves a row
\* that is not in a two-row game exactly as it came in.
C10_Frame ==
    jpc # "start" =>
        /\ Len(games) = Len(input)
        /\ \A k \in 1..Len(input) :
              /\ DOMAIN input[k] \subseteq DOMAIN games[k]
              /\ DOMAIN games[k] \subseteq DOMAIN input[k] \cup OppFields
              /\ \A x \in DOMAIN input[k] : games[k][x] = input[k][x]
              /\ Cardinality(GroupOf(k)) # 2 => games[k] = input[k]

C10_Witness ==
    /\ jpc = "done"
    /\ Len(input) = 3
    /\ games[1] = input[1]
    /\ games[2] # input[2]
    /\ games[3] # input[3]
    /\ input[2].pts # input[3].pts

\* C11: on a dataset in which every game has two rows of different teams,
\* a second run of the pass over the rows the first run produced leaves
\* every row with the opp_pts and opp_poss the first run gave it.
C11_Idempotent ==
    (jpc = "done" /\ pass = 2 /\ \A k \in 1..Len(input) : WellFormed(k)) =>
        \A k \in 1..Len(input) :
            /\ OppFields \subseteq DOMAIN first[k]
            /\ games[k].opp_pts = first[k].opp_pts
            /\ games[k].opp_poss = first[k].opp_poss

C11_Witness ==
    /\ jpc = "done"
    /\ pass = 2
    /\ Len(input) = 2
    /\ \A k \in 1..Len(input) : WellFormed(k)
    /\ input[1].pts # input[2].pts
    /\ games[1].opp_pts = 95
    /\ first[1].opp_pts = 95

\* C12 (as claimed): every row that carries opponent fields got them from
\* another row of its game whose team identifier differs from its own.
C12_FromOtherTeam ==
    jpc = "done" =>
        \A k \in 1..Len(input) :
            "opp_pts" \in DOMAIN games[k] =>
                \E j \in GroupOf(k) :
                    /\ j # k
                    /\ input[j].team_id # input[k].team_id
                    /\ games[k].opp_pts = input[j].pts
                    /\ games[k].opp_poss = input[j].poss

-----------------------------------------------------------------------------
(* Claims about fresh and download_player_stats *)

SeasonCount == CURRENT_SEASON - FIRST_SEASON + 1

\* the API calls made so far for the season being downloaded
ApiCallsOf(c) == Len(c.dash) + c.twopt + c.bio

\* C13: a season whose file exists and that is not the current season, or
\* for which fresh returned true, is served from the file: no call of
\* get_dash_player_stats, get_2pt_shots or get_bio_stats, and one read.
C13_CachedNoApi ==
    /\ (cur.decision # "none" /\ cur.is_file
            /\ (cur.year # CURRENT_SEASON \/ cur.fresh)) =>
          /\ cur.decision = "cached"
          /\ cur.dash = <<>> /\ cur.twopt = 0 /\ cur.bio = 0
          /\ cur.reads = 1
    /\ ptotal.reads = ptotal.cached
    /\ (ptotal.downloaded = 0 /\ cur.decision # "download") => ptotal.api = 0

C13_Witness ==
    /\ ppc = "season"
    /\ cur.year = 2025
    /\ cur.is_file /\ cur.fresh
    /\ cur.decision = "cached"
    /\ ptotal.cached = 16
    /\ ptotal.reads = 16
    /\ ptotal.api = 0

\* C14: a season is downloaded only when its file is missing or it is the
\* current season and not fresh; its download calls get_dash_player_stats
\* for every per-mode with Base and Defense and once for Advanced/Totals,
\* then get_2pt_shots once, then get_bio_stats once, then joins once,
\* converts once and writes that season's file once.
C14_DownloadedSeason ==
    cur.decision = "download" =>
        /\ ~cur.is_file \/ (cur.year = CURRENT_SEASON /\ ~cur.fresh)
        /\ cur.reads = 0
        /\ cur.twopt <= 1 /\ cur.bio <= 1 /\ cur.join <= 1 /\ cur.convert <= 1
        /\ Len(cur.written) <= 1
        /\ cur.twopt = 1 =>
              cur.dash = << <<"Base", "Totals">>, <<"Defense", "Totals">>,
                            <<"Base", "PerGame">>, <<"Defense", "PerGame">>,
                            <<"Base", "Per36">>, <<"Defense", "Per36">>,
                            <<"Base", "Per100Possessions">>,
                            <<"Defense", "Per100Possessions">>,
                            <<"Advanced", "Totals">> >>
        /\ cur.bio = 1 => cur.twopt = 1
        /\ cur.join = 1 => cur.bio = 1
        /\ cur.convert = 1 => cur.join = 1
        /\ cur.written # <<>> =>
              (cur.convert = 1 /\ cur.written = << <<"players", cur.year>> >>)
        /\ pyear > cur.year => cur.written # <<>>
        /\ ppc # "raised" =>
              ptotal.api = 11 * ptotal.downloaded
                             + (IF cur.written = <<>> THEN ApiCallsOf(cur) ELSE 0)

C14_Witness ==
    /\ ppc = "season"
    /\ cur.decision = "download"
    /\ cur.year = 2025
    /\ cur.is_file /\ cur.age = 7200
    /\ cur.written = << <<"players", 2025>> >>
    /\ ptotal.cached = 15
    /\ ptotal.api = 11

\* C15: the file operations after the season loop are, in this order, one
\* tryrm of playerstats.parquet, one write of playerstats.parquet and one
\* dump of metadata.json; a finished run has handled every season, has made
\* one parquet write more than it downloaded seasons, and the 'updated'
\* value it dumped ends with "Z".
C15_RunEnding ==
    /\ pevents # <<>> => pyear > CURRENT_SEASON
    /\ Len(pevents) >= 1 => pevents[1] = <<"tryrm", "playerstats.parquet">>
    /\ Len(pevents) >= 2 => pevents[2] = <<"write_parquet", "playerstats.parquet">>
    /\ ppc = "done" =>
          /\ Len(pevents) = 3
          /\ pevents[3][1] = "json.dump" /\ pevents[3][2] = "metadata.json"
          /\ pevents[3][3][Len(pevents[3][3])] = "Z"
          /\ ptotal.tryrm = 1
          /\ ptotal.metadata = 1
          /\ ptotal.writes = ptotal.downloaded + 1
          /\ ptotal.cached + ptotal.downloaded = SeasonCount

C15_Witness ==
    /\ ppc = "done"
    /\ ptotal.downloaded = 3
    /\ ptotal.cached = 13
    /\ ptotal.writes = 4
    /\ pevents[3][3] = <<"2025-10-21T23:30:00", "+00:00", "Z">>

\* C16 (as claimed): fresh returns true exactly when the file exists and was
\* modified less than one hour (60 * 60 seconds) ago, and a file that is not
\* fresh is downloaded again.
C16_FreshWithinHour ==
    cur.fresh_called =>
        /\ cur.fresh <=> (cur.is_file /\ cur.age < 60 * 60)
        /\ ~cur.fresh => cur.decision = "download"

-----------------------------------------------------------------------------
(* What a retry call did, read off its event log *)

CountEv(l, e) == Cardinality({j \in 1..Len(l) : l[j].ev = e})

NumCalls(l)    == CountEv(l, "call")
NumReturns(l)  == CountEv(l, "return")
NumFailures(l) == NumCalls(l) - NumReturns(l)

IsSleep(e) == e.ev = "sleep"
SleepDelays(l) ==
    LET s == SelectSeq(l, IsSleep) IN [j \in 1..Len(s) |-> s[j].arg]

\* the events since the most recent invocation of f
LastCallPos(l) ==
    IF NumCalls(l) = 0 THEN 0
    ELSE CHOOSE j \in 1..Len(l) :
            /\ l[j].ev = "call"
            /\ \A k \in (j + 1)..Len(l) : l[k].ev # "call"
AttemptEvents(l) == SubSeq(l, LastCallPos(l) + 1, Len(l))
HasEv(l, e) == \E j \in 1..Len(l) : l[j].ev = e

IsRLE(x) == x.type = "RetryLimitExceeded"

-----------------------------------------------------------------------------
(* Claims about retry *)

\* C1: when f fails exactly k <= 11 times and then succeeds, retry returns
\* the value f returned, has invoked f exactly k+1 times, and has slept
\* exactly k times, the sleeps lasting the first k entries of the schedule.
C1_FailThenSucceed ==
    (pc = "returned" /\ NumFailures(log) <= 11) =>
        LET k == NumFailures(log) IN
        /\ result = log[Len(log)].arg
        /\ NumCalls(log) = k + 1
        /\ calls = k + 1
        /\ SleepDelays(log) = SubSeq(schedule, 1, k)

C1_Witness ==
    /\ pc = "returned"
    /\ NumFailures(log) = 11
    /\ result = 2
    /\ SleepDelays(log) = <<1, 2, 5, 10, 15, 20, 25, 25, 25, 50, 50>>

\* C2 (as claimed): f is never invoked a 13th time, and RetryLimitExceeded
\* is raised after exactly 12 invocations.
C2_TwelveInvocations ==
    /\ calls <= 12
    /\ (pc = "raised" /\ IsRLE(err)) => calls = 12

\* C3: every retry call ends, either by returning (no error) or by raising
\* RetryLimitExceeded, and the statement after the loop is never reached.
C3_Terminates ==
    /\ (pc = "loop") ~> (pc \in {"returned", "raised"})
    /\ [](pc = "returned" => err = None)
    /\ [](pc = "raised" => IsRLE(err))
    /\ [](err.type # "Exception")

C3_Witness ==
    /\ pc = "raised"
    /\ IsRLE(err)
    /\ HasEv(log, "traceback")

\* C4: an error raised by f before the cap is reached never leaves retry:
\* the handler goes on to the backoff, and another invocation follows;
\* the only error that leaves retry is RetryLimitExceeded.
C4_OnlyRLEPropagates ==
    /\ [](pc = "raised" => IsRLE(err))
    /\ [][(pc = "call" /\ pc' # "returned") => (pc' = "except" /\ err' = None)]_vars
    /\ [][(pc = "except" /\ i <= 11) => pc' \in {"traceback", "sleep"}]_vars
    /\ (pc = "except" /\ i <= 11) ~> (pc = "call")

C4_Witness ==
    /\ pc = "call"
    /\ calls = 12
    /\ NumFailures(log) = 12

\* C5: a RetryLimitExceeded carries the name of f, the keyword arguments
\* of the call, and the exception of the most recent invocation.
C5_ErrorContext ==
    (pc = "raised" /\ IsRLE(err)) =>
        /\ err.func_name = f
        /\ err.kwargs = kwargs
        /\ err.last_exception = exc
        /\ err.last_exception.seq = NumCalls(log)
        /\ err.last_exception.type \in ErrorClasses

C5_Witness ==
    /\ pc = "raised"
    /\ IsRLE(err)
    /\ err.func_name = "BoxScoreAdvancedV3"
    /\ err.kwargs = [game_id |-> 1, timeout |-> 30]
    /\ err.last_exception = [type |-> "ReadTimeout", seq |-> 13]

\* C6 (as claimed): the attempts carried by RetryLimitExceeded is the number
\* of invocations of f made by the retry call.
C6_AttemptsIsInvocations ==
    (pc = "raised" /\ IsRLE(err)) => err.attempts = NumCalls(log)

\* C7: at the sleep of a failed attempt, the traceback has been printed
\* exactly when the error is not a read timeout; a traceback is always
\* directly followed by that attempt's sleep; the final failed attempt
\* (the one that raises RetryLimitExceeded) prints nothing.
C7_TracebackPolicy ==
    /\ pc = "sleep" =>
          (HasEv(AttemptEvents(log), "traceback") <=>
              exc.type \notin {"ReadTimeout", "ReadTimeoutError", "TimeoutError"})
    /\ pc = "sleep" => ~HasEv(AttemptEvents(log), "sleep")
    /\ \A j \in 1..Len(log) :
          log[j].ev = "traceback" =>
              /\ log[j - 1].ev = "print"
              /\ j < Len(log) => log[j + 1].ev = "sleep"
    /\ \A j \in 1..Len(log) :
          log[j].ev = "sleep" => log[j - 1].ev \in {"print", "traceback"}
    /\ (pc = "raised" /\ IsRLE(err)) => log[Len(log)].ev = "call"

C7_Witness ==
    /\ pc = "sleep"
    /\ i = 12
    /\ exc.type = "ValueError"
    /\ HasEv(AttemptEvents(log), "traceback")
    /\ \E j \in 1..(Len(log) - 1) : log[j].ev = "print" /\ log[j + 1].ev = "sleep"

\* C17: within one retry call the delays slept never decrease.
C17_DelaysNeverDecrease ==
    LET d == SleepDelays(log) IN
    \A j \in 1..(Len(d) - 1) : d[j] <= d[j + 1]

C17_Witness ==
    /\ pc = "loop"
    /\ SleepDelays(log) = <<1, 2, 5, 10, 15, 20, 25, 25, 25, 50, 50, 100>>

\* C18: the counter is only ever used as an index while it is in 0..11:
\* no IndexError arises, and whenever a delay has been chosen it is the
\* schedule entry at the counter's value before the increment.
C18_IndexInBounds ==
    /\ err.type # "IndexError"
    /\ i \in 0..12
    /\ pc \in {"traceback", "sleep"} =>
          /\ (i - 1) \in 0..11
          /\ timeout = schedule[(i - 1) + 1]

C18_Witness ==
    /\ pc = "sleep"
    /\ i = 12
    /\ timeout = 100
    /\ calls = 12

\* C19: every failed attempt that is retried prints one "failed ..." message
\* between the invocation and the sleep; the n-th message names the n-th
\* schedule entry, and the sleep that follows lasts what the message named.
C19_MessageMatchesSleep ==
    /\ \A j \in 1..Len(log) :
          log[j].ev = "print" =>
              /\ log[j - 1].ev = "call"
              /\ log[j].arg = schedule[Cardinality({k \in 1..j : log[k].ev = "print"})]
    /\ \A j \in 1..Len(log) :
          log[j].ev = "sleep" =>
              LET p == IF log[j - 1].ev = "traceback" THEN j - 2 ELSE j - 1 IN
              /\ log[p].ev = "print"
              /\ log[p].arg = log[j].arg
    /\ pc \in {"traceback", "sleep"} =>
          /\ HasEv(AttemptEvents(log), "print")
          /\ CountEv(log, "print") = i
    /\ pc \in {"loop", "call"} => CountEv(log, "print") = CountEv(log, "sleep")

C19_Witness ==
    /\ pc = "call"
    /\ Len(log) >= 7
    /\ log[2] = [ev |-> "print", arg |-> 1]
    /\ log[3] = [ev |-> "sleep", arg |-> 1]
    /\ log[5] = [ev |-> "print", arg |-> 2]
    /\ log[6] = [ev |-> "traceback", arg |-> 0]
    /\ log[7] = [ev |-> "sleep", arg |-> 2]

\* C20: invocations and sleeps alternate, starting with an invocation, and a
\* retry call that has returned or raised ended on an invocation.
IsCallOrSleep(e) == e.ev \in {"call", "sleep"}
C20_CallsAndSleepsAlternate ==
    LET cs == SelectSeq(log, IsCallOrSleep) IN
    /\ \A j \in 1..Len(cs) : cs[j].ev = (IF j % 2 = 1 THEN "call" ELSE "sleep")
    /\ pc = "call" => (Len(cs) % 2 = 0)
    /\ pc \in {"returned", "raised", "done"} => cs[Len(cs)].ev = "call"
    /\ pc \in {"returned", "raised", "done"} => NumCalls(log) = CountEv(log, "sleep") + 1

C20_Witness ==
    /\ pc = "raised"
    /\ NumCalls(log) = 13
    /\ CountEv(log, "sleep") = 12
    /\ ~HasEv(log, "traceback")

\* C21: no retry call inherits anything from an earlier one.  In every retry
\* call, and so in the second call of get_box_score whatever the first call
\* went through, the counter equals the number of failures this call has
\* backed off from, the delays slept are the schedule from its first entry
\* on, and the call gives up only after the whole schedule has been slept.
C21_CallsShareNoState ==
    pc # "start" =>
        /\ i = CountEv(log, "print")
        /\ calls = NumCalls(log)
        /\ SleepDelays(log) = SubSeq(schedule, 1, CountEv(log, "sleep"))
        /\ pc \in {"loop", "call"} => i = CountEv(log, "sleep")
        /\ (pc = "call" /\ calls = 0) => (i = 0 /\ timeout = 0 /\ exc = None)
        /\ (pc = "raised" /\ IsRLE(err)) =>
              (SleepDelays(log) = schedule /\ calls = Len(schedule) + 1)

C21_Witness ==
    /\ f = "BoxScoreAdvancedV3"
    /\ pc = "raised"
    /\ IsRLE(err)
    /\ calls = 13
    /\ SleepDelays(log) = <<1, 2, 5, 10, 15, 20, 25, 25, 25, 50, 50, 100>>

-----------------------------------------------------------------------------
(* Claims about download_gamelogs *)

GameKeyOf(r) == <<r.game_id, r.team_id>>
PlayerKeyOf(r) == <<r.gameId, r.personId>>
GameKeysOf(rows) == {GameKeyOf(rows[k]) : k \in 1..Len(rows)}

\* the rows the season's download produced, before any merge
NewGames == LowerCase(join(logs))

\* C22: when the season's gamelog file was read, the merged games hold
\* exactly one row for each (game_id, team_id) found in the file or in the
\* download; a key of the download carries the downloaded row, a key found
\* only in the file carries the file's row.
C22_MergeKeepsNewest ==
    (gpc \in {"dump", "write"} /\ ~old_games.none) =>
        /\ GameKeysOf(season_games) = GameKeysOf(old_games.rows) \cup GameKeysOf(NewGames)
        /\ \A a, b \in 1..Len(season_games) :
              GameKeyOf(season_games[a]) = GameKeyOf(season_games[b]) => a = b
        /\ \A k \in 1..Len(season_games) :
              IF GameKeyOf(season_games[k]) \in GameKeysOf(NewGames)
                THEN /\ season_games[k].src = "new"
                     /\ \E j \in 1..Len(NewGames) : NewGames[j] = season_games[k]
                ELSE /\ season_games[k].src = "old"
                     /\ \E j \in 1..Len(old_games.rows) :
                           old_games.rows[j] = season_games[k]

C22_Witness ==
    /\ gpc = "write"
    /\ gyear = CURRENT_SEASON
    /\ old_games = Frame(<<[game_id |-> 1, team_id |-> 1, src |-> "old"],
                           [game_id |-> 1, team_id |-> 2, src |-> "old"]>>)
    /\ NewGames = <<[game_id |-> 1, team_id |-> 2, src |-> "new"]>>
    /\ season_games = <<[game_id |-> 1, team_id |-> 1, src |-> "old"],
                        [game_id |-> 1, team_id |-> 2, src |-> "new"]>>

\* C28: the player log written for a season never holds two rows with the
\* same (gameId, personId), whether or not the season had a playerlog file.
C28_NoDuplicatePlayers ==
    gwritten.wrote =>
        \A a, b \in 1..Len(gwritten.playerlog) :
            PlayerKeyOf(gwritten.playerlog[a]) = PlayerKeyOf(gwritten.playerlog[b])
                => a = b

\* C29: whatever seasons are cached or downloaded, download_gamelogs gets
\* past both concatenations to its final writes; only a failure of the API
\* can end it early.
C29_ReachesFinalWrites ==
    gpc = "raised" => gerr = "RetryLimitExceeded"

-----------------------------------------------------------------------------
(* Claims about espn.main *)

\* C23: for every date the loop handles, fetch_espn_data is called exactly
\* when the date has no file or is today's or yesterday's date; a date that
\* is passed over has a file, and that file is neither fetched nor written.
C23_FetchedIffNeeded ==
    ecur.idx # 0 =>
        /\ ecur.fetched <=>
              (~ecur.is_file \/ ecur.date \in {Strftime(now), Strftime(now - 1)})
        /\ ~ecur.fetched =>
              /\ ecur.before = "old"
              /\ ecur.after = ecur.before
              /\ ~ecur.wrote
              /\ ecur.error = "None"

C23_Witness ==
    /\ epc = "date"
    /\ ecur.is_file
    /\ ecur.date = Strftime(now - 1)
    /\ ecur.fetched
    /\ ecur.wrote
    /\ ecur.after = "new"

-----------------------------------------------------------------------------
(* Claims about backfill_player_details *)

\* the loop has just finished with the file bcur describes
JustHandled == bpc = "file" /\ bcur.idx >= 1 /\ fcur = bcur.idx + 1

\* C25: a file loaded with a non-empty player_details is skipped: no S3
\* request is made for it, it is not written, and skipped is the one counter
\* that moves, by one.
C25_SkipsFilled ==
    (bcur.idx # 0 /\ bcur.details = "nonempty") =>
        /\ bpc # "fetch"
        /\ bcur.requests = 0
        /\ bcur.writes = 0
        /\ bcur.on_disk = bcur.details
        /\ JustHandled =>
              /\ counts.skipped = bcur.was.skipped + 1
              /\ counts.updated = bcur.was.updated
              /\ counts.errors = bcur.was.errors

C25_Witness ==
    /\ JustHandled
    /\ bcur.idx = 2
    /\ bcur.details = "nonempty"
    /\ bcur.four_factors = "nonempty"
    /\ counts = [updated |-> 1, skipped |-> 1, errors |-> 0]

\* C26: when the request for a file fails with an error that is not
\* NoSuchKey and not an AccessDenied for a file without four_factors, the
\* file is not written, errors is the one counter that moves, by one, and
\* the loop goes on; the three counters always add up to the files handled
\* so far, and in a printed season summary to the files of the season.
C26_ErrorsCounted ==
    /\ bpc = "raised" => scur = 0
    /\ (/\ bcur.error.class \notin {"None", "NoSuchKey"}
        /\ ~(bcur.error.code = "AccessDenied" /\ bcur.four_factors # "nonempty")) =>
          /\ bcur.writes = 0
          /\ bcur.on_disk = bcur.details
          /\ bcur.requests = 1
          /\ JustHandled =>
                /\ counts.errors = bcur.was.errors + 1
                /\ counts.updated = bcur.was.updated
                /\ counts.skipped = bcur.was.skipped
    /\ bpc = "file" => counts.updated + counts.skipped + counts.errors = fcur - 1
    /\ summary.season # 0 =>
          summary.updated + summary.skipped + summary.errors = summary.files

C26_Witness ==
    /\ bpc = "season"
    /\ summary = [season |-> 2022, files |-> 3, updated |-> 1, skipped |-> 1, errors |-> 1]
    /\ bcur.idx = 3
    /\ bcur.error = [class |-> "ClientError", code |-> "AccessDenied"]
    /\ bcur.four_factors = "nonempty"
    /\ bcur.on_disk = "empty"
    /\ bcur.details = "empty"

-----------------------------------------------------------------------------
(* Claims about the two versions of retry *)

CallsAndSleeps(l) == SelectSeq(l, LAMBDA e : e.ev \in {"call", "sleep"})
WithoutTracebacks(l) == SelectSeq(l, LAMBDA e : e.ev # "traceback")
IsPrefixOf(a, b) == Len(a) <= Len(b) /\ SubSeq(b, 1, Len(a)) = a
Finished(p) == p \in {"returned", "raised"}

=============================================================================
